---- MODULE Spec2Model ----
(***************************************************************************)
(* use-next-route: the useRoute hook (src/src/index.tsx).                  *)
(*                                                                         *)
(* Strings are sequences of one-character strings, so that concatenation,  *)
(* startsWith and indexOf are computed rather than assumed.  An optional   *)
(* JavaScript value (x?: T) is a sequence of length 0 (undefined / null)   *)
(* or 1 (the value).                                                       *)
(***************************************************************************)
EXTENDS Integers, Sequences, FiniteSets

VARIABLES
    provided,    \* is a <RouterProvider> mounted above the call site
    context,     \* value useContext(RouterContext) returns: None is null
    inputs,      \* arguments and context of the latest useRoute call
    handle,      \* what the latest useRoute call returned, with its closure
    effectDeps,  \* dependency list of the last run of usePrefetch's effect
    inflight,    \* navigate() calls suspended at the await of line 128
    navCount,    \* number of navigate() calls started so far
    trace        \* what the latest step did: calls made to the outside

vars == <<provided, context, inputs, handle, effectDeps, inflight, navCount, trace>>

----------------------------------------------------------------------------
(* Optional values and strings *)

None == <<>>

Some(x) == <<x>>

\* JavaScript truthiness of an optional string: undefined and '' are falsy
Truthy(optStr) == optStr # None /\ optStr[1] # <<>>

\* String.prototype.startsWith
StartsWith(s, p) == Len(p) <= Len(s) /\ SubSeq(s, 1, Len(p)) = p

\* String.prototype.indexOf for a single character, 0-based, -1 when absent
IndexOf(s, c) ==
    IF \E i \in 1..Len(s) : s[i] = c
    THEN (CHOOSE i \in 1..Len(s) : s[i] = c /\ \A j \in 1..(i - 1) : s[j] # c) - 1
    ELSE -1

\* A value of mixed JavaScript type (only isActive needs one)
JSUndefined == [t |-> "undefined", b |-> FALSE, s |-> <<>>]

JSString(str) == [t |-> "string", b |-> FALSE, s |-> str]

JSBool(bool) == [t |-> "boolean", b |-> bool, s |-> <<>>]

----------------------------------------------------------------------------
(* qs.stringify of the query-string package, on string-valued mappings.    *)
(* A mapping is a sequence of [key, value] entries in insertion order with *)
(* distinct keys.                                                          *)

\* UTF-16 code unit of the characters the model uses, for Array.sort
CharCode(c) ==
    CASE c = "#" -> 35
      [] c = "/" -> 47
      [] c = "1" -> 49
      [] c = "4" -> 52
      [] c = "?" -> 63
      [] c = "a" -> 97
      [] c = "b" -> 98
      [] c = "c" -> 99
      [] c = "d" -> 100
      [] c = "i" -> 105
      [] c = "q" -> 113
      [] c = "x" -> 120
      [] c = "y" -> 121
      [] c = "z" -> 122
      [] OTHER -> 0

RECURSIVE StrLess(_, _)
StrLess(s, t) ==
    IF t = <<>> THEN FALSE
    ELSE IF s = <<>> THEN TRUE
    ELSE IF CharCode(s[1]) # CharCode(t[1]) THEN CharCode(s[1]) < CharCode(t[1])
    ELSE StrLess(Tail(s), Tail(t))

\* strict-uri-encode: reserved characters become %XX, the rest pass through
EncodeChar(c) ==
    CASE c = "#" -> <<"%", "2", "3">>
      [] c = "/" -> <<"%", "2", "F">>
      [] c = "?" -> <<"%", "3", "F">>
      [] OTHER -> <<c>>

RECURSIVE Encode(_)
Encode(s) == IF s = <<>> THEN <<>> ELSE EncodeChar(s[1]) \o Encode(Tail(s))

RECURSIVE InsertSorted(_, _)
InsertSorted(e, sorted) ==
    IF sorted = <<>> THEN <<e>>
    ELSE IF StrLess(e.key, sorted[1].key) THEN <<e>> \o sorted
    ELSE <<sorted[1]>> \o InsertSorted(e, Tail(sorted))

RECURSIVE SortByKey(_)
SortByKey(q) == IF q = <<>> THEN <<>> ELSE InsertSorted(q[1], SortByKey(Tail(q)))

RECURSIVE JoinPairs(_)
JoinPairs(q) ==
    IF q = <<>> THEN <<>>
    ELSE Encode(q[1].key) \o <<"=">> \o Encode(q[1].value)
         \o (IF Tail(q) = <<>> THEN <<>> ELSE <<"&">> \o JoinPairs(Tail(q)))

Stringify(q) == JoinPairs(SortByKey(q))

----------------------------------------------------------------------------
(* The pure functions of src/src/index.tsx *)

\* A url argument: a string (isString, its text in pathname) or a UrlObject
UrlString(str) == [isString |-> TRUE, pathname |-> str, query |-> None]

UrlObject(pathname, query) == [isString |-> FALSE, pathname |-> pathname, query |-> query]

\* function urlObjectToString: an object, even an empty one, is truthy
urlObjectToString(url) ==
    LET query == IF url.query # None THEN <<"?">> \o Stringify(url.query[1]) ELSE <<>>
    IN  url.pathname \o query

\* wantsNewTab without the middle-button test
wantsNewTabKeysOnly(e) == e.metaKey \/ e.ctrlKey \/ e.shiftKey

\* function wantsNewTab
wantsNewTab(e) ==
    \/ e.metaKey
    \/ e.ctrlKey
    \/ e.shiftKey
    \/ (e.nativeEvent # None /\ e.nativeEvent[1].which = 2)

\* function parseRoute
parseRoute(url) ==
    IF url.isString
    THEN [pathname |-> url.pathname, query |-> None]
    ELSE [pathname |-> url.pathname, query |-> url.query]

\* options.as || route : a non-empty string or any object is truthy
AsOrRoute(as, route) ==
    IF as # None /\ (~as[1].isString \/ as[1].pathname # <<>>)
    THEN parseRoute(as[1])
    ELSE parseRoute(route)

\* alias.query taken from options.as
aliasQueryOfAs(route, alias) == alias.query

\* function getUrlObjects: alias.query is route.query
aliasQuery(route, alias) == route.query

\* function getUrlObjects: prefix ? prefix + alias.pathname : alias.pathname
aliasPathname(prefix, alias) ==
    IF Truthy(prefix) THEN prefix[1] \o alias.pathname ELSE alias.pathname

\* function getUrlObjects
getUrlObjects(url, options, prefix) ==
    LET route == parseRoute(url)
        alias == AsOrRoute(options.as, [isString |-> FALSE, pathname |-> route.pathname,
                                        query |-> route.query])
    IN  [route |-> [pathname |-> route.pathname, query |-> route.query],
         alias |-> [pathname |-> aliasPathname(prefix, alias),
                    query |-> aliasQuery(route, alias)]]

\* the prefetched href taken from the alias
routeHrefOfAlias(route, alias) == urlObjectToString(alias)

\* function useRoute, line 113: const href = urlObjectToString(route)
routeHref(route, alias) == urlObjectToString(route)

\* function useRoute, lines 114 and 137: href: aliasHref
aliasHref(route, alias) == urlObjectToString(alias)

\* shouldScroll decided on the alias
shouldScrollOfAlias(route, alias) == IndexOf(alias.pathname, "#") < 0

\* function useRoute, line 115: route.pathname.indexOf('#') < 0
shouldScroll(route, alias) == IndexOf(route.pathname, "#") < 0

\* function useRoute, line 116: currentRoute && currentRoute.startsWith(...)
\* (a && b is a when a is falsy: undefined or '')
isActive(currentRoute, route) ==
    IF currentRoute = None THEN JSUndefined
    ELSE IF currentRoute[1] = <<>> THEN JSString(<<>>)
    ELSE JSBool(StartsWith(currentRoute[1], route.pathname))

\* changeType decided on the presence of options.replace
changeTypeIfPresent(options) == IF options.replace # None THEN "replace" ELSE "push"

\* function useRoute, line 117: options.replace ? 'replace' : 'push'
changeType(options) ==
    IF options.replace # None /\ options.replace[1] THEN "replace" ELSE "push"

\* function useRoute, line 119: options.prefetch === true
shouldPrefetch(options) == options.prefetch = Some(TRUE)

----------------------------------------------------------------------------
(* Inputs the actions draw from *)

MaxNavigations == 2

PathA == <<"/", "a">>

PathFrag == <<"/", "b", "#", "c">>

PathX == <<"/", "x">>

PathXFrag == <<"/", "x", "#", "y">>

PathAB == <<"/", "a", "/", "b">>

PathDA == <<"/", "d", "/", "a">>

PrefixD == <<"/", "d">>

QueryId == <<[key |-> <<"i", "d">>, value |-> <<"4">>]>>

\* { q: 'a#', id: '4' } in insertion order
QueryTwo == <<[key |-> <<"q">>, value |-> <<"a", "#">>],
              [key |-> <<"i", "d">>, value |-> <<"4">>]>>

QueryZ == <<[key |-> <<"z">>, value |-> <<"1">>]>>

MakeOptions(prefetchSet, replaceSet, asSet) ==
    [prefetch : prefetchSet, replace : replaceSet, as : asSet]

OptBool == {None, Some(FALSE), Some(TRUE)}

\* the render-only specification
ResolveUrls ==
    {UrlString(PathA), UrlString(PathFrag), UrlObject(PathA, None),
     UrlObject(PathA, Some(<<>>)), UrlObject(PathA, Some(QueryId)),
     UrlObject(PathFrag, Some(QueryTwo))}

ResolveOptions ==
    MakeOptions(OptBool, {None},
                {None, Some(UrlString(PathX)), Some(UrlObject(PathXFrag, Some(QueryZ)))})

ResolveRoutes == {None, Some(<<>>), Some(PathAB), Some(PathDA)}

ResolvePrefixes == {None, Some(<<>>), Some(PrefixD)}

\* the full lifecycle
Urls == {UrlString(PathA), UrlObject(PathFrag, Some(QueryId))}

AllOptions == MakeOptions({None}, OptBool, {None, Some(UrlString(PathXFrag))})

Routes == {None, Some(PathAB)}

Prefixes == {None, Some(PrefixD)}

\* left-button clicks with every combination of modifier keys, a middle and
\* a right click without modifiers, and an event carrying no native event
Events ==
    [metaKey : BOOLEAN, ctrlKey : BOOLEAN, shiftKey : BOOLEAN,
     nativeEvent : {Some([which |-> 1])}]
    \cup [metaKey : {FALSE}, ctrlKey : {FALSE}, shiftKey : {FALSE},
          nativeEvent : {None, Some([which |-> 2]), Some([which |-> 3])}]

----------------------------------------------------------------------------
(* State *)

Idle ==
    [op |-> "init", prevHref |-> None, prevRouteHref |-> None, prevFlag |-> FALSE,
     prefetchCalls |-> <<>>, event |-> None, defaultPrevented |-> FALSE,
     navigateCalls |-> 0, engineCalls |-> <<>>, pendingBefore |-> 0, settled |-> None,
     engine |-> "none", outcome |-> "none", scrollToCalls |-> <<>>,
     focusCalls |-> <<>>]

\* line 5: createContext(null), nothing rendered yet
Init ==
    /\ provided = FALSE
    /\ context = None
    /\ inputs = None
    /\ handle = None
    /\ effectDeps = None
    /\ inflight = {}
    /\ navCount = 0
    /\ trace = Idle

\* a provider that installs null when it has neither prop
RouterProviderNullWhenEmpty(route, routePrefix) ==
    /\ provided' = TRUE
    /\ context' = IF route = None /\ routePrefix = None
                  THEN None
                  ELSE Some([currentRoute |-> route, routePrefix |-> routePrefix])
    /\ trace' = [Idle EXCEPT !.op = "provider"]
    /\ UNCHANGED <<inputs, handle, effectDeps, inflight, navCount>>

\* function RouterProvider
RouterProvider(route, routePrefix) ==
    /\ provided' = TRUE
    /\ context' = Some([currentRoute |-> route, routePrefix |-> routePrefix])
    /\ trace' = [Idle EXCEPT !.op = "provider"]
    /\ UNCHANGED <<inputs, handle, effectDeps, inflight, navCount>>

\* function useRouterContext, line 63: if (!context) throw
useRouterContextThrows == context = None

\* usePrefetch without its dependency list: the effect runs on every render
usePrefetchEveryRender(href, flag) ==
    [calls |-> IF flag THEN <<href>> ELSE <<>>, deps |-> Some(<<href, flag>>)]

\* function usePrefetch: the effect runs on mount and when a dependency
\* changed; it calls Router.prefetch(href) if shouldPrefetch
usePrefetch(href, flag) ==
    LET deps == <<href, flag>>
        run == effectDeps = None \/ effectDeps[1] # deps
    IN  [calls |-> IF run /\ flag THEN <<href>> ELSE <<>>, deps |-> Some(deps)]

\* function useRoute, lines 111 to 119 and 135 to 140
useRoute(url, options) ==
    LET snapshot == [url |-> url, options |-> options, provided |-> provided,
                     context |-> context]
        before == [Idle EXCEPT
                     !.prevHref = IF handle = None THEN None ELSE Some(handle[1].href),
                     !.prevRouteHref =
                         IF handle = None THEN None
                         ELSE Some(urlObjectToString(handle[1].route)),
                     !.prevFlag = inputs # None /\ inputs[1].options.prefetch = Some(TRUE)]
    IN
    /\ inputs' = Some(snapshot)
    /\ IF useRouterContextThrows
       THEN /\ handle' = None
            /\ trace' = [before EXCEPT !.op = "throw"]
            /\ UNCHANGED effectDeps
       ELSE LET ctx == context[1]
                objs == getUrlObjects(url, options, ctx.routePrefix)
                effect == usePrefetch(routeHref(objs.route, objs.alias),
                                      shouldPrefetch(options))
            IN  /\ handle' = Some([href |-> aliasHref(objs.route, objs.alias),
                                   isActive |-> isActive(ctx.currentRoute, objs.route),
                                   route |-> objs.route,
                                   alias |-> objs.alias,
                                   changeType |-> changeType(options),
                                   shouldScroll |-> shouldScroll(objs.route, objs.alias)])
                /\ effectDeps' = effect.deps
                /\ trace' = [before EXCEPT !.op = "render",
                                           !.prefetchCalls = effect.calls]
    /\ UNCHANGED <<provided, context, inflight, navCount>>

\* navigate() that drops the call while another one is pending
navigateUnlessPending(tr) ==
    /\ navCount < MaxNavigations
    /\ navCount' = navCount + 1
    /\ inflight' = IF inflight # {} THEN inflight
                   ELSE {[id |-> navCount + 1, route |-> handle[1].route,
                          shouldScroll |-> handle[1].shouldScroll]}
    /\ trace' = [tr EXCEPT !.navigateCalls = 1,
                           !.pendingBefore = Cardinality(inflight),
                           !.engineCalls =
                               IF inflight # {} THEN <<>>
                               ELSE <<[method |-> handle[1].changeType,
                                       route |-> handle[1].route,
                                       alias |-> handle[1].alias]>>]
    /\ UNCHANGED <<provided, context, inputs, handle, effectDeps>>

\* async function navigate, up to the await of line 128: one call of
\* Router[changeType](route, alias), then the call is suspended holding the
\* variables of its closure that lines 129 to 132 read
navigate(tr) ==
    /\ navCount < MaxNavigations
    /\ navCount' = navCount + 1
    /\ inflight' = inflight \cup {[id |-> navCount + 1,
                                    route |-> handle[1].route,
                                    shouldScroll |-> handle[1].shouldScroll]}
    /\ trace' = [tr EXCEPT !.navigateCalls = 1,
                           !.pendingBefore = Cardinality(inflight),
                           !.engineCalls = <<[method |-> handle[1].changeType,
                                              route |-> handle[1].route,
                                              alias |-> handle[1].alias]>>]
    /\ UNCHANGED <<provided, context, inputs, handle, effectDeps>>

\* function onClick
onClick(e) ==
    /\ handle # None
    /\ IF wantsNewTab(e)
       THEN /\ trace' = [Idle EXCEPT !.op = "click", !.event = Some(e)]
            /\ UNCHANGED <<provided, context, inputs, handle, effectDeps, inflight,
                           navCount>>
       ELSE navigate([Idle EXCEPT !.op = "click", !.event = Some(e),
                                  !.defaultPrevented = TRUE])

\* the caller invokes the returned navigate()
callNavigate ==
    /\ handle # None
    /\ navigate([Idle EXCEPT !.op = "navigate"])

\* async function navigate, lines 128 to 132: Router's promise fulfils with
\* success and the suspended call resumes
resume(call, success) ==
    LET reset == success /\ call.shouldScroll
    IN  /\ call \in inflight
        /\ inflight' = inflight \ {call}
        /\ trace' = [Idle EXCEPT !.op = "resume", !.settled = Some(call),
                                 !.pendingBefore = Cardinality(inflight),
                                 !.engine = IF success THEN "true" ELSE "false",
                                 !.outcome = "fulfilled",
                                 !.scrollToCalls = IF reset THEN << <<0, 0>> >> ELSE <<>>,
                                 !.focusCalls = IF reset THEN <<"body">> ELSE <<>>]
        /\ UNCHANGED <<provided, context, inputs, handle, effectDeps, navCount>>

\* async function navigate, line 128: Router's promise rejects; nothing
\* catches it, so navigate()'s promise rejects and lines 129 to 132 are skipped
rethrow(call) ==
    /\ call \in inflight
    /\ inflight' = inflight \ {call}
    /\ trace' = [Idle EXCEPT !.op = "resume", !.settled = Some(call),
                             !.pendingBefore = Cardinality(inflight),
                             !.engine = "rejected", !.outcome = "rejected"]
    /\ UNCHANGED <<provided, context, inputs, handle, effectDeps, navCount>>

Next ==
    \/ \E route \in Routes, routePrefix \in Prefixes : RouterProvider(route, routePrefix)
    \/ \E url \in Urls, options \in AllOptions : useRoute(url, options)
    \/ \E e \in Events : onClick(e)
    \/ callNavigate
    \/ \E call \in inflight, success \in BOOLEAN : resume(call, success)
    \/ \E call \in inflight : rethrow(call)

Spec == Init /\ [][Next]_vars

NextResolve ==
    \/ \E route \in ResolveRoutes, routePrefix \in ResolvePrefixes :
          RouterProvider(route, routePrefix)
    \/ \E url \in ResolveUrls, options \in ResolveOptions : useRoute(url, options)

SpecResolve == Init /\ [][NextResolve]_vars

----------------------------------------------------------------------------
(* What the claims speak of, read off the arguments of the latest useRoute *)
(* call rather than off what the hook computed                             *)

InputPathname == inputs[1].url.pathname

InputQuery == IF inputs[1].url.isString THEN None ELSE inputs[1].url.query

InputContext == inputs[1].context[1]

\* routePrefix ?? ''
PrefixOrEmpty ==
    IF InputContext.routePrefix = None THEN <<>> ELSE InputContext.routePrefix[1]

ExpectedAliasPathname ==
    PrefixOrEmpty \o (IF inputs[1].options.as # None
                      THEN inputs[1].options.as[1].pathname
                      ELSE InputPathname)

CanonicalString == urlObjectToString([pathname |-> InputPathname, query |-> InputQuery])

PrefetchEnabled == inputs[1].options.prefetch = Some(TRUE)

HasFragment(pathname) == \E i \in 1..Len(pathname) : pathname[i] = "#"

ResetMade == trace.scrollToCalls = << <<0, 0>> >> /\ trace.focusCalls = <<"body">>

NoSideEffect == trace.scrollToCalls = <<>> /\ trace.focusCalls = <<>>

----------------------------------------------------------------------------
(* C1: whatever the form of the url, of options.as and of routePrefix, the *)
(* alias pathname is (routePrefix or '') followed by the pathname of as if *)
(* as is given and of the route otherwise, the alias query is the route's  *)
(* query, and the route pathname is the input pathname, unprefixed.        *)
C1_AliasComposition ==
    handle # None =>
        /\ handle[1].alias.pathname = ExpectedAliasPathname
        /\ handle[1].alias.query = InputQuery
        /\ handle[1].route.pathname = InputPathname
        /\ handle[1].route.query = InputQuery

\* an object url with a query, an object as with another query, a prefix
C1_Witness ==
    /\ handle # None
    /\ inputs[1].url = UrlObject(PathFrag, Some(QueryTwo))
    /\ inputs[1].options.as = Some(UrlObject(PathXFrag, Some(QueryZ)))
    /\ InputContext.routePrefix = Some(PrefixD)
    /\ handle[1].alias = [pathname |-> PrefixD \o PathXFrag, query |-> Some(QueryTwo)]

C3_QuestionMarkIffNonEmpty ==
    handle # None =>
        handle[1].href =
            handle[1].alias.pathname
            \o (IF InputQuery # None /\ InputQuery[1] # <<>>
                THEN <<"?">> \o Stringify(InputQuery[1])
                ELSE <<>>)

(* C4: a click with metaKey, ctrlKey, shiftKey or the middle button is     *)
(* left alone: no preventDefault, no navigate, no engine call.  Any other  *)
(* click calls preventDefault and navigate exactly once.                   *)
C4_ClickDispatch ==
    trace.op = "click" =>
        LET e == trace.event[1]
            newTab == \/ e.metaKey
                      \/ e.ctrlKey
                      \/ e.shiftKey
                      \/ e.nativeEvent = Some([which |-> 2])
        IN  IF newTab
            THEN /\ ~trace.defaultPrevented
                 /\ trace.navigateCalls = 0
                 /\ trace.engineCalls = <<>>
            ELSE /\ trace.defaultPrevented
                 /\ trace.navigateCalls = 1

\* a middle click without modifier keys was left alone
C4_Witness ==
    /\ trace.op = "click"
    /\ trace.event[1] = [metaKey |-> FALSE, ctrlKey |-> FALSE, shiftKey |-> FALSE,
                         nativeEvent |-> Some([which |-> 2])]
    /\ ~trace.defaultPrevented

(* C5: when a navigate() call resumes, scroll is reset and focus moved to  *)
(* the body if and only if the engine reported success and the canonical   *)
(* route's pathname has no '#'; after a reported failure nothing is done   *)
(* and navigate() completes normally.                                      *)
C5_ScrollResetIff ==
    trace.op = "resume" =>
        /\ IF trace.engine = "true" /\ ~HasFragment(trace.settled[1].route.pathname)
           THEN ResetMade
           ELSE NoSideEffect
        /\ trace.engine = "false" => trace.outcome = "fulfilled"

\* a successful navigation to a canonical route without fragment reset scroll
C5_Witness ==
    /\ trace.op = "resume"
    /\ trace.engine = "true"
    /\ trace.settled[1].route.pathname = PathA
    /\ ResetMade

(* C6: isActive is the boolean true if currentRoute is defined and starts  *)
(* with the canonical route.pathname and the boolean false otherwise, in   *)
(* particular when currentRoute is undefined; routePrefix and options.as   *)
(* play no part.                                                           *)
C6_IsActiveBoolean ==
    handle # None =>
        handle[1].isActive =
            JSBool(/\ InputContext.currentRoute # None
                   /\ StartsWith(InputContext.currentRoute[1], InputPathname))

(* C7: each navigate() makes exactly one engine call, Router.replace if    *)
(* options.replace is true and Router.push otherwise, with the canonical   *)
(* route first and the prefixed alias second; no step that is not a        *)
(* navigate() calls the engine, so nothing is retried.                     *)
C7_OneEngineCall ==
    IF trace.navigateCalls = 1
    THEN trace.engineCalls =
            <<[method |-> IF inputs[1].options.replace = Some(TRUE)
                          THEN "replace" ELSE "push",
               route |-> [pathname |-> InputPathname, query |-> InputQuery],
               alias |-> [pathname |-> ExpectedAliasPathname, query |-> InputQuery]]>>
    ELSE trace.engineCalls = <<>>

\* replace: false pushes
C7_Witness ==
    /\ trace.navigateCalls = 1
    /\ inputs[1].options.replace = Some(FALSE)
    /\ trace.engineCalls[1].method = "push"
    /\ trace.engineCalls[1].alias.pathname # trace.engineCalls[1].route.pathname

(* C8, as claimed: a render calls Router.prefetch once if prefetch is true *)
(* and it is the first render or the returned href or the prefetch flag    *)
(* differs from the previous render, and not at all otherwise.             *)
C8_PrefetchOnReturnedHrefChange ==
    trace.op = "render" =>
        Len(trace.prefetchCalls) =
            IF /\ PrefetchEnabled
               /\ \/ trace.prevHref = None
                  \/ trace.prevHref # Some(handle[1].href)
                  \/ ~trace.prevFlag
            THEN 1 ELSE 0

(* C8, amended: a render calls Router.prefetch once if prefetch is true    *)
(* and it is the first render or the string form of the canonical route    *)
(* or the prefetch flag differs from the previous render, and not at all   *)
(* otherwise.                                                              *)
C8_PrefetchOnCanonicalHrefChange ==
    trace.op = "render" =>
        Len(trace.prefetchCalls) =
            IF /\ PrefetchEnabled
               /\ \/ trace.prevRouteHref = None
                  \/ trace.prevRouteHref # Some(CanonicalString)
                  \/ ~trace.prevFlag
            THEN 1 ELSE 0

\* a re-render with prefetch on and the same canonical route, whose returned
\* href changed: no prefetch
C8_Witness ==
    /\ trace.op = "render"
    /\ PrefetchEnabled
    /\ trace.prevFlag
    /\ trace.prevRouteHref = Some(CanonicalString)
    /\ trace.prevHref # Some(handle[1].href)
    /\ trace.prefetchCalls = <<>>

(* C9: useRoute outside a provider throws, returning no handle and calling *)
(* neither prefetch nor the engine; under a provider it never throws, even *)
(* when currentRoute and routePrefix are both undefined.                   *)
C9_MissingContext ==
    inputs # None =>
        /\ (handle = None) = ~inputs[1].provided
        /\ (trace.op = "throw") =>
              /\ ~inputs[1].provided
              /\ trace.prefetchCalls = <<>>
              /\ trace.engineCalls = <<>>
              /\ effectDeps = None
        /\ (trace.op = "render") => inputs[1].provided

\* the hook threw
C9_Witness ==
    /\ trace.op = "throw"
    /\ handle = None
    /\ ~provided

(* C10: a navigate() started while others are pending still calls the      *)
(* engine and is added to the pending calls; a pending call resumes on its *)
(* own response, in any order, leaves the others pending and applies the   *)
(* side effects its own route and the response decide.                     *)
C10_OverlappingNavigations ==
    /\ trace.navigateCalls = 1 =>
          /\ Len(trace.engineCalls) = 1
          /\ Cardinality(inflight) = trace.pendingBefore + 1
          /\ \E call \in inflight : call.id = navCount
    /\ trace.op = "resume" =>
          /\ Cardinality(inflight) = trace.pendingBefore - 1
          /\ trace.settled[1] \notin inflight
          /\ ResetMade = (/\ trace.engine = "true"
                          /\ ~HasFragment(trace.settled[1].route.pathname))

\* the first of two overlapping calls resumed last and reset the scroll,
\* though the second call was for a route with a fragment
C10_Witness ==
    /\ trace.op = "resume"
    /\ trace.settled[1].id = 1
    /\ navCount >= 2
    /\ trace.pendingBefore = 1
    /\ handle # None
    /\ HasFragment(handle[1].route.pathname)
    /\ ResetMade

====
